---------------------------- MODULE Spec2Model ----------------------------
(***************************************************************************)
(* Texas Hold'em round engine of p-bot: the hand evaluator                 *)
(* (src/src/utils/handEvaluator.ts), the betting state machine the display *)
(* layer drives (GameEngine, imported by src/src/App.tsx) and the display  *)
(* layer's handlers (src/src/App.tsx).                                     *)
(*                                                                         *)
(* Strengths are JavaScript floats in the source; here they are integers   *)
(* in thousandths (0.85 is 850, 0.3 + rank/100 is 300 + 10*rank).          *)
(***************************************************************************)
EXTENDS Integers, Sequences, FiniteSets, TLC

\* ------------------------------------------------------------------------
\* Cards
\* ------------------------------------------------------------------------

\* The Rank enum's string values (they are what PlayerHand renders as card.rank).
Rank == <<"2", "3", "4", "5", "6", "7", "8", "9", "10", "J", "Q", "K", "A">>

Suit == <<"c", "d", "h", "s">>

NoRank == "none"

getRankValue(rank) ==
  CASE rank = "2" -> 2  [] rank = "3" -> 3  [] rank = "4" -> 4
    [] rank = "5" -> 5  [] rank = "6" -> 6  [] rank = "7" -> 7
    [] rank = "8" -> 8  [] rank = "9" -> 9  [] rank = "10" -> 10
    [] rank = "J" -> 11 [] rank = "Q" -> 12 [] rank = "K" -> 13
    [] rank = "A" -> 14

Card(r, s) == [rank |-> r, suit |-> s]

Min(S) == CHOOSE x \in S : \A y \in S : x <= y
Max(S) == CHOOSE x \in S : \A y \in S : x >= y

\* ------------------------------------------------------------------------
\* JavaScript helpers used by the evaluator
\* ------------------------------------------------------------------------

\* Array.prototype.find: the first element of keys that satisfies the
\* predicate (given as the set of values that satisfy it), or nothing.
Find(keys, satisfying) ==
  LET hits == {i \in 1..Len(keys) : keys[i] \in satisfying}
  IN  IF hits = {} THEN NoRank ELSE keys[Min(hits)]

\* Array.prototype.filter, the predicate given the same way.
Filter(keys, satisfying) == SelectSeq(keys, LAMBDA k : k \in satisfying)

\* The keys of an object in the order they were first inserted.
RECURSIVE InsertionOrder(_)
InsertionOrder(s) ==
  IF s = <<>> THEN <<>>
  ELSE LET front == InsertionOrder(SubSeq(s, 1, Len(s) - 1))
           last  == s[Len(s)]
       IN  IF \E i \in 1..Len(front) : front[i] = last THEN front
           ELSE Append(front, last)

\* A property key that is a canonical array index ("2" .. "10").
IsIntegerKey(k) == k \in {"2", "3", "4", "5", "6", "7", "8", "9", "10"}

RECURSIVE AscendingKeys(_)
AscendingKeys(S) ==
  IF S = {} THEN <<>>
  ELSE LET m == CHOOSE k \in S : \A o \in S : getRankValue(k) <= getRankValue(o)
       IN  <<m>> \o AscendingKeys(S \ {m})

\* Object.keys: integer-like keys in ascending numeric order first, then the
\* other string keys in insertion order.
ObjectKeys(inserted) ==
  LET ints == {inserted[i] : i \in {j \in 1..Len(inserted) : IsIntegerKey(inserted[j])}}
  IN  AscendingKeys(ints) \o SelectSeq(inserted, LAMBDA k : ~IsIntegerKey(k))

\* Array.prototype.sort with comparator value(b) - value(a): high to low, and
\* stable (elements of equal value keep their order).
InsertByValue(sorted, x) ==
  LET k == Cardinality({i \in 1..Len(sorted) : sorted[i][1] >= x[1]})
  IN  SubSeq(sorted, 1, k) \o <<x>> \o SubSeq(sorted, k + 1, Len(sorted))

RECURSIVE SortPairs(_)
SortPairs(s) ==
  IF s = <<>> THEN <<>>
  ELSE InsertByValue(SortPairs(SubSeq(s, 1, Len(s) - 1)), s[Len(s)])

\* values[i] is the value the comparator reads for s[i].
SortDescending(s, values) ==
  LET sorted == SortPairs([i \in 1..Len(s) |-> <<values[i], s[i]>>])
  IN  [i \in 1..Len(s) |-> sorted[i][2]]

RankValues(ranks) == [i \in 1..Len(ranks) |-> getRankValue(ranks[i])]

Slice(s, n) == SubSeq(s, 1, IF Len(s) < n THEN Len(s) ELSE n)

\* ------------------------------------------------------------------------
\* handEvaluator.ts
\* ------------------------------------------------------------------------

Null == [handType |-> "null", handRank |-> 0, kickers |-> <<>>,
         description |-> <<>>, strength |-> 0]

\* getRankCounts: the counts object, as its key order and its values.
getRankCounts(cards) ==
  [keys  |-> ObjectKeys(InsertionOrder([i \in 1..Len(cards) |-> cards[i].rank])),
   count |-> [r \in {cards[i].rank : i \in 1..Len(cards)} |->
                Cardinality({i \in 1..Len(cards) : cards[i].rank = r})]]

\* The keys whose count is n (the predicate rankCounts[rank] === n).
WithCount(counts, n) == {k \in DOMAIN counts.count : counts.count[k] = n}

getSuitCounts(cards) ==
  [keys  |-> InsertionOrder([i \in 1..Len(cards) |-> cards[i].suit]),
   count |-> [s \in {cards[i].suit : i \in 1..Len(cards)} |->
                Cardinality({i \in 1..Len(cards) : cards[i].suit = s})]]

checkFlush(cards) ==
  LET suitCounts == getSuitCounts(cards)
      flushSuit  == Find(suitCounts.keys, {s \in DOMAIN suitCounts.count : suitCounts.count[s] >= 5})
  IN  IF flushSuit # NoRank
      THEN LET flushCards == SelectSeq(cards, LAMBDA c : c.suit = flushSuit)
               highCard   == flushCards[1].rank
           IN  [handType |-> "Flush", handRank |-> 6, kickers |-> <<highCard>>,
                description |-> <<"Flush", "undefined", "high">>, strength |-> 750]
      ELSE Null

\* The wheel is looked for before the scan for five consecutive ranks.
checkStraight_WheelFirst(cards) ==
  LET values      == {getRankValue(cards[i].rank) : i \in 1..Len(cards)}
      unique      == InsertionOrder([i \in 1..Len(cards) |-> getRankValue(cards[i].rank)])
      uniqueRanks == SortDescending(unique, unique)
      runs == {i \in 1..(Len(uniqueRanks) - 4) :
                 \A j \in 1..4 : uniqueRanks[i + j] = uniqueRanks[i] - j}
  IN  IF {14, 2, 3, 4, 5} \subseteq values
      THEN [handType |-> "Straight", handRank |-> 5, kickers |-> <<"5">>,
            description |-> <<"Straight", "Five high (Wheel)">>, strength |-> 600]
      ELSE IF runs # {}
      THEN LET top      == uniqueRanks[Min(runs)]
               highCard == Find(Rank, {r \in {Rank[i] : i \in 1..Len(Rank)} : getRankValue(r) = top})
           IN  [handType |-> "Straight", handRank |-> 5,
                kickers |-> IF highCard # NoRank THEN <<highCard>> ELSE <<>>,
                description |-> <<"Straight", "undefined", "high">>, strength |-> 650]
      ELSE Null

checkStraight(cards) ==
  LET values      == {getRankValue(cards[i].rank) : i \in 1..Len(cards)}
      unique      == InsertionOrder([i \in 1..Len(cards) |-> getRankValue(cards[i].rank)])
      uniqueRanks == SortDescending(unique, unique)
      runs == {i \in 1..(Len(uniqueRanks) - 4) :
                 \A j \in 1..4 : uniqueRanks[i + j] = uniqueRanks[i] - j}
  IN  IF runs # {}
      THEN LET top      == uniqueRanks[Min(runs)]
               highCard == Find(Rank, {r \in {Rank[i] : i \in 1..Len(Rank)} : getRankValue(r) = top})
           IN  [handType |-> "Straight", handRank |-> 5,
                kickers |-> IF highCard # NoRank THEN <<highCard>> ELSE <<>>,
                description |-> <<"Straight", "undefined", "high">>, strength |-> 650]
      ELSE IF {14, 2, 3, 4, 5} \subseteq values
      THEN [handType |-> "Straight", handRank |-> 5, kickers |-> <<"5">>,
            description |-> <<"Straight", "Five high (Wheel)">>, strength |-> 600]
      ELSE Null

checkStraightFlush(cards) ==
  LET flush    == checkFlush(cards)
      straight == checkStraight(cards)
  IN  IF flush # Null /\ straight # Null
      THEN LET highCard == cards[1].rank
               isRoyal  == getRankValue(highCard) = 14
           IN  [handType |-> IF isRoyal THEN "Royal Flush" ELSE "Straight Flush",
                handRank |-> IF isRoyal THEN 10 ELSE 9,
                kickers |-> <<highCard>>,
                description |-> IF isRoyal THEN <<"Royal Flush">>
                                ELSE <<"Straight Flush", "undefined", "high">>,
                strength |-> IF isRoyal THEN 1000 ELSE 950]
      ELSE Null

checkFourOfAKind(cards) ==
  LET rankCounts      == getRankCounts(cards)
      fourOfAKindRank == Find(rankCounts.keys, WithCount(rankCounts, 4))
  IN  IF fourOfAKindRank # NoRank
      THEN LET kicker == Find(rankCounts.keys, WithCount(rankCounts, 1) \ {fourOfAKindRank})
           IN  [handType |-> "Four of a Kind", handRank |-> 8,
                kickers |-> IF kicker # NoRank THEN <<kicker>> ELSE <<>>,
                description |-> <<"Four", fourOfAKindRank>>, strength |-> 900]
      ELSE Null

checkFullHouse(cards) ==
  LET rankCounts       == getRankCounts(cards)
      threeOfAKindRank == Find(rankCounts.keys, WithCount(rankCounts, 3))
      pairRank         == Find(rankCounts.keys, WithCount(rankCounts, 2))
  IN  IF threeOfAKindRank # NoRank /\ pairRank # NoRank
      THEN [handType |-> "Full House", handRank |-> 7,
            kickers |-> <<threeOfAKindRank, pairRank>>,
            description |-> <<"Full House", threeOfAKindRank, "over", pairRank>>,
            strength |-> 850]
      ELSE Null

checkThreeOfAKind(cards) ==
  LET rankCounts       == getRankCounts(cards)
      threeOfAKindRank == Find(rankCounts.keys, WithCount(rankCounts, 3))
  IN  IF threeOfAKindRank # NoRank
      THEN LET singles == Filter(rankCounts.keys, WithCount(rankCounts, 1) \ {threeOfAKindRank})
               kickers == Slice(SortDescending(singles, RankValues(singles)), 2)
           IN  [handType |-> "Three of a Kind", handRank |-> 4, kickers |-> kickers,
                description |-> <<"Three", threeOfAKindRank>>, strength |-> 550]
      ELSE Null

\* Two pair valued below the best single pair.
checkTwoPair_LowStrength(cards) ==
  LET rankCounts == getRankCounts(cards)
      pairs      == Filter(rankCounts.keys, WithCount(rankCounts, 2))
  IN  IF Len(pairs) >= 2
      THEN LET sortedPairs == SortDescending(pairs, RankValues(pairs))
               kicker      == Find(rankCounts.keys, WithCount(rankCounts, 1))
           IN  [handType |-> "Two Pair", handRank |-> 3,
                kickers |-> IF kicker # NoRank THEN <<kicker>> ELSE <<>>,
                description |-> <<"Two Pair", sortedPairs[1], "and", sortedPairs[2]>>,
                strength |-> 400]
      ELSE Null

checkTwoPair(cards) ==
  LET rankCounts == getRankCounts(cards)
      pairs      == Filter(rankCounts.keys, WithCount(rankCounts, 2))
  IN  IF Len(pairs) >= 2
      THEN LET sortedPairs == SortDescending(pairs, RankValues(pairs))
               kicker      == Find(rankCounts.keys, WithCount(rankCounts, 1))
           IN  [handType |-> "Two Pair", handRank |-> 3,
                kickers |-> IF kicker # NoRank THEN <<kicker>> ELSE <<>>,
                description |-> <<"Two Pair", sortedPairs[1], "and", sortedPairs[2]>>,
                strength |-> 450]
      ELSE Null

\* The pair's rank weighs half as much in the strength.
checkPair_HalfScale(cards) ==
  LET rankCounts == getRankCounts(cards)
      pairRank   == Find(rankCounts.keys, WithCount(rankCounts, 2))
  IN  IF pairRank # NoRank
      THEN LET singles == Filter(rankCounts.keys, WithCount(rankCounts, 1) \ {pairRank})
               kickers == Slice(SortDescending(singles, RankValues(singles)), 3)
           IN  [handType |-> "Pair", handRank |-> 2, kickers |-> kickers,
                description |-> <<"Pair of", pairRank>>,
                strength |-> 300 + 5 * getRankValue(pairRank)]
      ELSE Null

checkPair(cards) ==
  LET rankCounts == getRankCounts(cards)
      pairRank   == Find(rankCounts.keys, WithCount(rankCounts, 2))
  IN  IF pairRank # NoRank
      THEN LET singles == Filter(rankCounts.keys, WithCount(rankCounts, 1) \ {pairRank})
               kickers == Slice(SortDescending(singles, RankValues(singles)), 3)
           IN  [handType |-> "Pair", handRank |-> 2, kickers |-> kickers,
                description |-> <<"Pair of", pairRank>>,
                strength |-> 300 + 10 * getRankValue(pairRank)]
      ELSE Null

checkHighCard(cards) ==
  LET ranks       == [i \in 1..Len(cards) |-> cards[i].rank]
      sortedRanks == Slice(SortDescending(ranks, RankValues(ranks)), 5)
  IN  [handType |-> "High Card", handRank |-> 1, kickers |-> sortedRanks,
       description |-> <<"High Card", "undefined">>,
       strength |-> 100 + 5 * getRankValue(sortedRanks[1])]

\* The || chain: the first checker that does not return null.
FirstMatch(sortedCards) ==
  LET sf == checkStraightFlush(sortedCards)
      fk == checkFourOfAKind(sortedCards)
      fh == checkFullHouse(sortedCards)
      fl == checkFlush(sortedCards)
      st == checkStraight(sortedCards)
      tk == checkThreeOfAKind(sortedCards)
      tp == checkTwoPair(sortedCards)
      pr == checkPair(sortedCards)
  IN  IF sf # Null THEN sf
      ELSE IF fk # Null THEN fk
      ELSE IF fh # Null THEN fh
      ELSE IF fl # Null THEN fl
      ELSE IF st # Null THEN st
      ELSE IF tk # Null THEN tk
      ELSE IF tp # Null THEN tp
      ELSE IF pr # Null THEN pr
      ELSE checkHighCard(sortedCards)

\* The length test off by one: four cards are ranked like a full hand.
evaluateHand_FourCards(cards) ==
  IF Len(cards) < 4
  THEN [handType |-> "High Card", handRank |-> 1, kickers |-> <<>>,
        description |-> <<"Incomplete hand">>, strength |-> 100]
  ELSE FirstMatch(SortDescending(cards, [i \in 1..Len(cards) |-> getRankValue(cards[i].rank)]))

\* The checkers are given the cards as passed, without the sort.
evaluateHand_Unsorted(cards) ==
  IF Len(cards) < 5
  THEN [handType |-> "High Card", handRank |-> 1, kickers |-> <<>>,
        description |-> <<"Incomplete hand">>, strength |-> 100]
  ELSE FirstMatch(cards)

evaluateHand(cards) ==
  IF Len(cards) < 5
  THEN [handType |-> "High Card", handRank |-> 1, kickers |-> <<>>,
        description |-> <<"Incomplete hand">>, strength |-> 100]
  ELSE FirstMatch(SortDescending(cards, [i \in 1..Len(cards) |-> getRankValue(cards[i].rank)]))

\* The caller's array after evaluateHand has returned: the sort is done on a
\* copy ([...cards]) and the checkers only read, so it is as it was passed.
cardsAfterEvaluateHand(cards) == cards


\* ------------------------------------------------------------------------
\* GameEngine (utils/gameEngine): the betting state machine
\* ------------------------------------------------------------------------

Players == 1..3

\* players.find(p => !p.isBot): the first seat is the human, the others bots.
IsBot(i) == i # 1

StartingChips == 100
SmallBlind == 25
BigBlind == 50
MinimumIncrement == 50

Phases == <<"PREFLOP", "FLOP", "TURN", "RIVER", "SHOWDOWN">>

PhaseIndex(ph) == CHOOSE i \in 1..Len(Phases) : Phases[i] = ph

\* Community cards on the table in each phase.
CommunityCount(ph) ==
  CASE ph = "PREFLOP" -> 0 [] ph = "FLOP" -> 3 [] ph = "TURN" -> 4
    [] ph = "RIVER" -> 5 [] ph = "SHOWDOWN" -> 5

\* The shuffles startNewHand may produce: seats' hole cards, then the board.
\* DealDistinct: three different hand strengths. DealTwoTie: seats 1 and 2 hold
\* the same best hand. DealBoardPlays: the board is every seat's best hand.
DealDistinct ==
  [hole  |-> <<  <<Card("A", "s"), Card("A", "d")>>,
                 <<Card("K", "h"), Card("Q", "h")>>,
                 <<Card("7", "c"), Card("2", "d")>>  >>,
   board |-> <<Card("A", "c"), Card("9", "s"), Card("5", "h"),
               Card("3", "d"), Card("8", "c")>>]

DealTwoTie ==
  [hole  |-> <<  <<Card("A", "h"), Card("2", "c")>>,
                 <<Card("A", "d"), Card("2", "s")>>,
                 <<Card("3", "c"), Card("4", "d")>>  >>,
   board |-> <<Card("K", "s"), Card("Q", "d"), Card("J", "c"),
               Card("10", "h"), Card("9", "s")>>]

DealBoardPlays ==
  [hole  |-> <<  <<Card("2", "h"), Card("3", "c")>>,
                 <<Card("2", "d"), Card("4", "c")>>,
                 <<Card("3", "d"), Card("4", "h")>>  >>,
   board |-> <<Card("A", "s"), Card("K", "s"), Card("Q", "s"),
               Card("J", "s"), Card("10", "s")>>]

\* DealKickerTie: the board's two pair and queen are every seat's best hand.
DealKickerTie ==
  [hole  |-> <<  <<Card("J", "d"), Card("3", "c")>>,
                 <<Card("J", "c"), Card("4", "d")>>,
                 <<Card("7", "h"), Card("2", "d")>>  >>,
   board |-> <<Card("A", "s"), Card("A", "d"), Card("K", "c"),
               Card("K", "h"), Card("Q", "s")>>]

Deals == {DealDistinct, DealTwoTie, DealBoardPlays, DealKickerTie}

\* The shuffle the display's hands are dealt from: the handlers read the cards
\* only through the showdown's winners, and this deal gives one, two or no
\* tied winners depending on who has folded.
DisplayDeals == {DealTwoTie}

NoCards == <<>>

\* new GameEngine(): no hand dealt yet.
NewEngine ==
  [players |-> [i \in Players |->
                  [chips |-> StartingChips, currentBet |-> 0, isActive |-> TRUE,
                   hasActed |-> FALSE, isBot |-> IsBot(i), cards |-> NoCards]],
   communityCards |-> NoCards,
   board |-> NoCards,
   pot |-> 0,
   currentBet |-> 0,
   phase |-> "PREFLOP",
   activePlayerIndex |-> 1,
   handNumber |-> 0,
   handComplete |-> FALSE]

Seat(i) == ((i - 1) % Cardinality(Players)) + 1

ActivePlayers(e) == {i \in Players : e.players[i].isActive}

\* The turn passes to the adjacent seat, folded or not.
NextActive_Adjacent(e, i) == Seat(i + 1)

\* The next seat after i, wrapping around, whose player is still active.
NextActive(e, i) ==
  LET steps == {k \in 1..Cardinality(Players) : e.players[Seat(i + k)].isActive}
  IN  IF steps = {} THEN i ELSE Seat(i + Min(steps))

\* The whole amount reaches the pot although the seat pays only what it has.
PostBet_Uncapped(e, i, amount) ==
  LET paid == IF amount > e.players[i].chips THEN e.players[i].chips ELSE amount
  IN  [e EXCEPT !.players[i].chips = @ - paid,
                !.players[i].currentBet = @ + amount,
                !.pot = @ + amount]

\* Moves up to amount chips from seat i to the pot, as that seat's bet.
PostBet(e, i, amount) ==
  LET paid == IF amount > e.players[i].chips THEN e.players[i].chips ELSE amount
  IN  [e EXCEPT !.players[i].chips = @ - paid,
                !.players[i].currentBet = @ + paid,
                !.pot = @ + paid]

\* startNewHand: new deck, new positions, blinds posted, phase PREFLOP.
startNewHand(e, deal) ==
  LET n      == e.handNumber + 1
      dealer == Seat(n)
      sb     == Seat(dealer + 1)
      bb     == Seat(dealer + 2)
      fresh  == [e EXCEPT
                   !.players = [i \in Players |->
                                  [e.players[i] EXCEPT !.currentBet = 0,
                                                       !.isActive = TRUE,
                                                       !.hasActed = FALSE,
                                                       !.cards = deal.hole[i]]],
                   !.communityCards = NoCards,
                   !.board = deal.board,
                   !.pot = 0,
                   !.currentBet = BigBlind,
                   !.phase = "PREFLOP",
                   !.activePlayerIndex = Seat(dealer + 3),
                   !.handNumber = n,
                   !.handComplete = FALSE]
  IN  PostBet(PostBet(fresh, sb, SmallBlind), bb, BigBlind)

isGameComplete(e) == e.handComplete

CallAmount(e) == e.currentBet - e.players[e.activePlayerIndex].currentBet

MinRaise(e) ==
  IF e.currentBet * 2 > e.currentBet + MinimumIncrement
  THEN e.currentBet * 2 ELSE e.currentBet + MinimumIncrement

\* CHECK offered whatever the outstanding bet.
getAvailableActions_CheckAlways(e) ==
  LET p == e.players[e.activePlayerIndex]
  IN  IF e.handNumber = 0 \/ e.handComplete THEN {}
      ELSE {"FOLD", "CHECK"}
             \cup (IF e.currentBet > p.currentBet /\ p.chips > 0 THEN {"CALL"} ELSE {})
             \cup (IF p.chips > CallAmount(e) THEN {"RAISE"} ELSE {})

getAvailableActions(e) ==
  LET p == e.players[e.activePlayerIndex]
  IN  IF e.handNumber = 0 \/ e.handComplete THEN {}
      ELSE {"FOLD"}
             \cup (IF e.currentBet = p.currentBet THEN {"CHECK"} ELSE {})
             \cup (IF e.currentBet > p.currentBet /\ p.chips > 0 THEN {"CALL"} ELSE {})
             \cup (IF p.chips > CallAmount(e) THEN {"RAISE"} ELSE {})

\* "none" when the action is accepted, otherwise the error kind.
ActionError(e, action, amount) ==
  IF action \notin getAvailableActions(e) THEN "InvalidAction"
  ELSE IF action = "RAISE" /\ amount > e.players[e.activePlayerIndex].chips
  THEN "InsufficientFunds"
  ELSE IF action = "RAISE" /\ amount < MinRaise(e) THEN "InvalidAction"
  ELSE "none"

\* The chip movement and flags of one legal action by the player to act.
ApplyAction(e, action, amount) ==
  LET i == e.activePlayerIndex
      p == e.players[i]
  IN  CASE action = "FOLD" ->
             [e EXCEPT !.players[i].isActive = FALSE, !.players[i].hasActed = TRUE]
        [] action = "CHECK" ->
             [e EXCEPT !.players[i].hasActed = TRUE]
        [] action = "CALL" ->
             [PostBet(e, i, CallAmount(e)) EXCEPT !.players[i].hasActed = TRUE]
        [] action = "RAISE" ->
             LET raised == PostBet(e, i, amount - p.currentBet)
             IN  [raised EXCEPT
                    !.currentBet = amount,
                    !.players = [j \in Players |->
                                   [raised.players[j] EXCEPT !.hasActed = (j = i)]]]

\* The round closes on matched bets alone, whoever has yet to act.
RoundClosed_BetsOnly(e) ==
  \A i \in ActivePlayers(e) :
    e.players[i].chips > 0 => e.players[i].currentBet = e.currentBet

\* Every still-active player with chips left has matched the table's bet and
\* has acted since the last raise.
RoundClosed(e) ==
  \A i \in ActivePlayers(e) :
    e.players[i].chips > 0 =>
      (e.players[i].currentBet = e.currentBet /\ e.players[i].hasActed)

\* (categoryRank, kickers) as a sequence compared from the left.
HandKey(ev) == <<ev.handRank>> \o RankValues(ev.kickers)

KeyAt(k, n) == IF n <= Len(k) THEN k[n] ELSE 0

\* k beats l at the first position where they differ.
KeyGreater(k, l) ==
  \E n \in 1..(Len(k) + Len(l)) :
    /\ KeyAt(k, n) > KeyAt(l, n)
    /\ \A m \in 1..(n - 1) : KeyAt(k, m) = KeyAt(l, m)

\* The still-active players whose 7-card hand no other active player beats.
Winners(e) ==
  LET key == [i \in ActivePlayers(e) |->
                HandKey(evaluateHand(e.players[i].cards \o e.communityCards))]
  IN  {i \in ActivePlayers(e) :
         \A j \in ActivePlayers(e) : ~KeyGreater(key[j], key[i])}

\* The whole pot goes to the earliest seat among the tied winners.
PayWinners_FirstTakesAll(e, winners) ==
  [e EXCEPT !.players[Min(winners)].chips = @ + e.pot,
            !.pot = 0,
            !.handComplete = TRUE]

\* The pot goes to the winners in equal shares; the remainder of the integer
\* division goes to the earliest seat among them.
PayWinners(e, winners) ==
  LET share == e.pot \div Cardinality(winners)
      rest  == e.pot % Cardinality(winners)
      first == Min(winners)
  IN  [e EXCEPT
         !.players = [i \in Players |->
                        IF i \in winners
                        THEN [e.players[i] EXCEPT
                                !.chips = @ + share + (IF i = first THEN rest ELSE 0)]
                        ELSE e.players[i]],
         !.pot = 0,
         !.handComplete = TRUE]

AwardPot(e, winners) == CHOOSE paid \in {PayWinners(e, w) : w \in {winners}} : TRUE

\* The phase transition brings every seat back into the hand.
AdvancePhase_Reactivates(e) ==
  LET next    == Phases[PhaseIndex(e.phase) + 1]
      cleared == [e EXCEPT
                    !.currentBet = 0,
                    !.players = [i \in Players |->
                                   [e.players[i] EXCEPT !.currentBet = 0,
                                                        !.hasActed = FALSE,
                                                        !.isActive = TRUE]],
                    !.communityCards = SubSeq(e.board, 1, CommunityCount(next)),
                    !.phase = next,
                    !.activePlayerIndex = NextActive(e, e.activePlayerIndex)]
  IN  IF next = "SHOWDOWN" THEN AwardPot(cleared, Winners(cleared)) ELSE cleared

\* The phase transition: bets cleared, next cards revealed, phase advanced;
\* into SHOWDOWN the hands are evaluated and the pot awarded.
AdvancePhase(e) ==
  LET next    == Phases[PhaseIndex(e.phase) + 1]
      cleared == [e EXCEPT
                    !.currentBet = 0,
                    !.players = [i \in Players |->
                                   [e.players[i] EXCEPT !.currentBet = 0,
                                                        !.hasActed = FALSE]],
                    !.communityCards = SubSeq(e.board, 1, CommunityCount(next)),
                    !.phase = next,
                    !.activePlayerIndex = NextActive(e, e.activePlayerIndex)]
  IN  IF next = "SHOWDOWN" THEN AwardPot(cleared, Winners(cleared)) ELSE cleared

\* The hand is played on to the showdown although one player is left.
Resolve_PlaysOn(e) ==
  IF RoundClosed(e) THEN AdvancePhase(e)
  ELSE [e EXCEPT !.activePlayerIndex = NextActive(e, e.activePlayerIndex)]

\* What follows a legal action: the hand ends when one player is left, the
\* phase advances when the round is closed, otherwise the turn passes on.
Resolve(e) ==
  IF Cardinality(ActivePlayers(e)) = 1 THEN AwardPot(e, ActivePlayers(e))
  ELSE IF RoundClosed(e) THEN AdvancePhase(e)
  ELSE [e EXCEPT !.activePlayerIndex = NextActive(e, e.activePlayerIndex)]

\* processPlayerAction: the error kind and the state after the call.
processPlayerAction(e, action, amount) ==
  LET error == ActionError(e, action, amount)
  IN  [error |-> error,
       state |-> IF error = "none" THEN Resolve(ApplyAction(e, action, amount)) ELSE e]

\* getGameState: the GameState the display receives.
getGameState(e) ==
  [players |-> [i \in Players |->
                  [chips |-> e.players[i].chips, currentBet |-> e.players[i].currentBet,
                   isActive |-> e.players[i].isActive, isBot |-> e.players[i].isBot,
                   cards |-> e.players[i].cards]],
   communityCards |-> e.communityCards,
   pot |-> e.pot,
   currentBet |-> e.currentBet,
   phase |-> e.phase,
   activePlayerIndex |-> e.activePlayerIndex,
   handNumber |-> e.handNumber]

\* ------------------------------------------------------------------------
\* State
\* ------------------------------------------------------------------------

VARIABLES
  cards,         \* the card array handed to evaluateHand
  evaluation,    \* the HandEvaluation it returned
  engine,        \* the GameEngine instance App holds
  gameState,     \* App: useState gameState
  isProcessing,  \* App: useState isProcessing
  gameStarted,   \* App: useState gameStarted
  timers,        \* pending setTimeout(() => processBotTurn()) callbacks
  loops,         \* the processBotTurn invocations suspended at an await
  lastCall       \* the engine call made by the last step, and how it ended

evalVars == <<cards, evaluation>>

appVars == <<engine, gameState, isProcessing, gameStarted, timers, loops, lastCall>>

vars == <<cards, evaluation, engine, gameState, isProcessing, gameStarted,
          timers, loops, lastCall>>

\* App's botDecisions map (and the timeouts that delete its entries) only feeds
\* what BotThinking renders; no handler reads it and it is not part of the state.

\* ------------------------------------------------------------------------
\* App.tsx: the display layer's state and handlers
\* ------------------------------------------------------------------------

MaxHands == 2
MaxPending == 2

HumanIndex == CHOOSE i \in Players : ~IsBot(i)

Actions == {"FOLD", "CHECK", "CALL", "RAISE"}

\* The amounts a RAISE is tried with.
AmountChoices == {0, 50, 100, 400}

\* The (action, amount) pairs a caller passes: only RAISE reads the amount.
ActionInputs ==
  {<<a, 0>> : a \in Actions \ {"RAISE"}} \cup {<<"RAISE", m>> : m \in AmountChoices}

NoCall == [action |-> "none", error |-> "none"]

Idle == [pc |-> "idle", active |-> 0, action |-> "none", amount |-> 0]

Slots == 1..MaxPending

LiveLoops == {k \in Slots : loops[k] # Idle}

\* CommunityCards: the river is shown with one card fewer.
getRevealedCount_RiverFour(ph) ==
  CASE ph = "PREFLOP" -> 0 [] ph = "FLOP" -> 3 [] ph = "TURN" -> 4
    [] ph = "RIVER" -> 4 [] ph = "SHOWDOWN" -> 5

\* CommunityCards.getRevealedCount for the phase it is given.
getRevealedCount(ph) ==
  CASE ph = "PREFLOP" -> 0 [] ph = "FLOP" -> 3 [] ph = "TURN" -> 4
    [] ph = "RIVER" -> 5 [] ph = "SHOWDOWN" -> 5

\* CommunityCards: the slots 0..4 rendered face up, those that hold a card
\* and whose index is below the revealed count.
FaceUp(gs) ==
  {index \in 0..4 : index < Len(gs.communityCards)
                      /\ index < getRevealedCount(gs.phase)}

\* A bot's cards are turned over as soon as the bot has folded.
showCards_FoldedToo(index) ==
  \/ ~gameState.players[index].isBot
  \/ ~gameState.players[index].isActive
  \/ isGameComplete(engine)

\* App: the showCards prop of the PlayerHand of the player at a seat.
showCards(index) ==
  ~gameState.players[index].isBot \/ isGameComplete(engine)

\* PlayerHand: the hole cards rendered with rank and suit; the others are
\* drawn as card backs.
shownCards(index) ==
  IF showCards(index) THEN gameState.players[index].cards ELSE <<>>

\* PlayerHand: the evaluation computed for the "Hand Strength" panel, Null
\* when none is computed.
handEvaluation(index) ==
  IF showCards(index) /\ Len(gameState.players[index].cards) = 2
  THEN evaluateHand(gameState.players[index].cards \o gameState.communityCards)
  ELSE Null

InitApp ==
  /\ engine = NewEngine
  /\ gameState = getGameState(NewEngine)
  /\ isProcessing = FALSE
  /\ gameStarted = FALSE
  /\ timers = 0
  /\ loops = [k \in Slots |-> Idle]
  /\ lastCall = NoCall

\* App.tsx:89-92
isHumanTurn ==
  /\ ~isProcessing
  /\ ~isGameComplete(engine)
  /\ gameState.activePlayerIndex = HumanIndex

\* ActionButtons: the props App passes while it is the human's turn.
availableActions == IF isHumanTurn THEN getAvailableActions(engine) ELSE {}

playerChips == gameState.players[HumanIndex].chips

\* ActionButtons.tsx:24
minRaise(currentBet) == Max({currentBet * 2, currentBet + MinimumIncrement})

\* The values the raiseAmount state can hold: its initial value, a slider
\* position between minRaise and maxRaise, or a quick bet capped at maxRaise.
raiseAmounts(currentBet, chips) ==
  {Min({100, chips})}
    \cup (minRaise(currentBet)..chips)
    \cup {Min({amount, chips}) :
            amount \in {currentBet \div 4, currentBet \div 2, currentBet, chips}}

\* handleRaise: the amount passed to onAction(RAISE, amount).
handleRaise(raiseAmount, currentBet, chips) ==
  Min({Max({raiseAmount, minRaise(currentBet)}), chips})

\* How many more processBotTurn callbacks may be scheduled.
MaySchedule == timers + Cardinality(LiveLoops) < MaxPending

\* startNewGame: the "Start Poker Game" and "Deal New Hand" buttons.
StartNewGame(deal) ==
  /\ ~gameStarted \/ isGameComplete(engine)
  /\ engine.handNumber < MaxHands
  /\ MaySchedule
  /\ engine' = startNewHand(engine, deal)
  /\ gameState' = getGameState(engine')
  /\ gameStarted' = TRUE
  /\ timers' = IF IsBot(engine'.activePlayerIndex) THEN timers + 1 ELSE timers
  /\ lastCall' = NoCall
  /\ UNCHANGED <<isProcessing, loops, cards, evaluation>>

\* The display moves its own turn pointer on before the engine has answered.
HandlePlayerAction_Optimistic(action, amount) ==
  /\ gameStarted
  /\ isHumanTurn
  /\ ~isProcessing
  /\ MaySchedule
  /\ \E r \in {processPlayerAction(engine, action, amount)} :
         /\ lastCall' = [action |-> action, error |-> r.error]
         /\ IF r.error = "none"
            THEN /\ engine' = r.state
                 /\ gameState' = getGameState(r.state)
                 /\ isProcessing' = TRUE
                 /\ timers' = timers + 1
            ELSE /\ isProcessing' = FALSE
                 /\ gameState' = [gameState EXCEPT
                                    !.activePlayerIndex = NextActive(engine, @)]
                 /\ UNCHANGED <<engine, timers>>
  /\ UNCHANGED <<gameStarted, loops, cards, evaluation>>

\* handlePlayerAction, called by an action button (rendered on the human's turn).
HandlePlayerAction(action, amount) ==
  /\ gameStarted
  /\ isHumanTurn
  /\ ~isProcessing
  /\ MaySchedule
  /\ \E r \in {processPlayerAction(engine, action, amount)} :
         /\ lastCall' = [action |-> action, error |-> r.error]
         /\ IF r.error = "none"
            THEN /\ engine' = r.state
                 /\ gameState' = getGameState(r.state)
                 /\ isProcessing' = TRUE
                 /\ timers' = timers + 1
            ELSE /\ isProcessing' = FALSE
                 /\ UNCHANGED <<engine, gameState, timers>>
  /\ UNCHANGED <<gameStarted, loops, cards, evaluation>>

DecisionInputs == {[action |-> in[1], amount |-> in[2]] : in \in ActionInputs}

\* getBotDecision: one legal action plus a sizing amount.
BotDecisions(e) ==
  {d \in DecisionInputs : ActionError(e, d.action, d.amount) = "none"}

\* The head of processBotTurn's while loop for the invocation in slot k, whose
\* local currentState names seat active as the player to act. Either the loop
\* ends (setIsProcessing(false)), or getBotDecision fails with NotPlayersTurn
\* and the invocation dies with isProcessing left true, or the decision d is
\* taken and the invocation waits for its 1500 ms timeout.
LoopHead(k, active, d) ==
  IF IsBot(active) /\ ~isGameComplete(engine)
  THEN /\ isProcessing' = TRUE
       /\ IF engine.activePlayerIndex = active
          THEN /\ d \in BotDecisions(engine)
               /\ loops' = [loops EXCEPT ![k] =
                              [pc |-> "thinking", active |-> active,
                               action |-> d.action, amount |-> d.amount]]
               /\ lastCall' = [action |-> "getBotDecision", error |-> "none"]
          ELSE /\ d = [action |-> "FOLD", amount |-> 0]
               /\ loops' = [loops EXCEPT ![k] = Idle]
               /\ lastCall' = [action |-> "getBotDecision",
                               error |-> "NotPlayersTurn"]
  ELSE /\ d = [action |-> "FOLD", amount |-> 0]
       /\ isProcessing' = FALSE
       /\ loops' = [loops EXCEPT ![k] = Idle]
       /\ lastCall' = NoCall


\* A processBotTurn timeout fires: the invocation runs to its first await.
BotTurnStart(k, d) ==
  /\ timers > 0
  /\ loops[k] = Idle
  /\ \A j \in Slots : j < k => loops[j] # Idle
  /\ timers' = timers - 1
  /\ LoopHead(k, getGameState(engine).activePlayerIndex, d)
  /\ UNCHANGED <<engine, gameState, gameStarted, cards, evaluation>>

\* The 1500 ms wait is over: the bot's action is processed; the invocation
\* then waits 1000 ms if the next player is a bot, and otherwise reaches the
\* loop head at once.
BotCommit(k) ==
  /\ loops[k].pc = "thinking"
  /\ \E r \in {processPlayerAction(engine, loops[k].action, loops[k].amount)} :
         /\ lastCall' = [action |-> loops[k].action, error |-> r.error]
         /\ IF r.error = "none"
            THEN /\ engine' = r.state
                 /\ gameState' = getGameState(r.state)
                 /\ IF IsBot(r.state.activePlayerIndex)
                    THEN /\ loops' = [loops EXCEPT ![k] =
                                        [pc |-> "waiting",
                                         active |-> r.state.activePlayerIndex,
                                         action |-> "none", amount |-> 0]]
                         /\ UNCHANGED isProcessing
                    ELSE /\ loops' = [loops EXCEPT ![k] = Idle]
                         /\ isProcessing' = FALSE
            ELSE /\ loops' = [loops EXCEPT ![k] = Idle]
                 /\ isProcessing' = FALSE
                 /\ UNCHANGED <<engine, gameState>>
  /\ UNCHANGED <<gameStarted, timers, cards, evaluation>>

\* The 1000 ms wait before the next bot is over: back to the loop head.
BotNext(k, d) ==
  /\ loops[k].pc = "waiting"
  /\ LoopHead(k, loops[k].active, d)
  /\ UNCHANGED <<engine, gameState, gameStarted, timers, cards, evaluation>>

Init ==
  /\ InitApp
  /\ cards = <<>>
  /\ evaluation = evaluateHand(<<>>)

Next ==
  \/ \E deal \in DisplayDeals : StartNewGame(deal)
  \/ \E in \in ActionInputs : HandlePlayerAction(in[1], in[2])
  \/ \E k \in Slots, d \in DecisionInputs : BotTurnStart(k, d)
  \/ \E k \in Slots : BotCommit(k)
  \/ \E k \in Slots, d \in DecisionInputs : BotNext(k, d)

Spec == Init /\ [][Next]_vars

\* A timeout that is pending does fire. Whether one of the steps below can
\* be taken depends on nothing but the timeout being pending, which the first
\* disjunct of each fairness condition states by itself, with no engine call
\* to work out; a step of Next that satisfies a condition is a step of the
\* handler named in it.
TimeoutDue ==
  /\ timers > 0
  /\ timers' = timers - 1
  /\ UNCHANGED <<engine, gameState, isProcessing, gameStarted, loops, lastCall,
                 cards, evaluation>>

AwaitOver(k, pc) ==
  /\ loops[k].pc = pc
  /\ loops' = [loops EXCEPT ![k] = Idle]
  /\ UNCHANGED <<engine, gameState, isProcessing, gameStarted, timers, lastCall,
                 cards, evaluation>>

\* The timeouts the display has set do fire: a scheduled processBotTurn
\* starts, a 1500 ms wait ends, a 1000 ms wait ends. Nothing obliges the human
\* to click.
TimersFire ==
  /\ WF_vars(TimeoutDue \/ \E k \in Slots, d \in DecisionInputs : BotTurnStart(k, d))
  /\ \A k \in Slots :
        /\ WF_vars(AwaitOver(k, "thinking") \/ BotCommit(k))
        /\ WF_vars(AwaitOver(k, "waiting") \/ \E d \in DecisionInputs : BotNext(k, d))

SpecFair == Init /\ [][Next]_vars /\ TimersFire

\* ------------------------------------------------------------------------
\* The engine's operations called one after the other by any caller
\* ------------------------------------------------------------------------

displayVars == <<gameState, isProcessing, gameStarted, timers, loops>>

\* startNewHand(): discards the previous hand wholesale.
EngineStartNewHand(deal) ==
  /\ engine.handNumber < MaxHands
  /\ engine' = startNewHand(engine, deal)
  /\ lastCall' = NoCall
  /\ UNCHANGED <<displayVars, cards, evaluation>>

\* processPlayerAction(action, amount): accepted or rejected.
EngineProcessPlayerAction(action, amount) ==
  /\ engine.handNumber > 0
  /\ \E r \in {processPlayerAction(engine, action, amount)} :
         /\ engine' = r.state
         /\ lastCall' = [action |-> action, error |-> r.error]
  /\ UNCHANGED <<displayVars, cards, evaluation>>

NextEngine ==
  \/ \E deal \in Deals : EngineStartNewHand(deal)
  \/ \E in \in ActionInputs : EngineProcessPlayerAction(in[1], in[2])

SpecEngine == Init /\ [][NextEngine]_vars

\* ------------------------------------------------------------------------
\* The evaluator's inputs: hands of 0..MaxCards distinct cards of a sub-deck
\* that holds every suit, a whole suit's straights (wheel, six-high, royal)
\* and ranks repeated in up to four suits.
\* ------------------------------------------------------------------------

MaxCards == 7

EvalDeck ==
  {Card(r, "h") : r \in {"2", "3", "4", "5", "6", "10", "J", "Q", "K", "A"}}
    \cup {Card(r, "s") : r \in {"2", "3", "A"}}
    \cup {Card(r, "d") : r \in {"2", "3", "A"}}
    \cup {Card(r, "c") : r \in {"2"}}

SuitIndex(s) == CHOOSE i \in 1..Len(Suit) : Suit[i] = s

\* A fixed order on cards, so that each hand is enumerated once.
CardIndex(c) == 4 * getRankValue(c.rank) + SuitIndex(c.suit)

InitEval ==
  /\ cards = <<>>
  /\ evaluation = evaluateHand(<<>>)
  /\ InitApp

\* The caller evaluates the hand it holds extended by one more card, as
\* PlayerHand does with [...player.cards, ...communityCards] as cards arrive.
EvaluateNext(c) ==
  /\ Len(cards) < MaxCards
  /\ \A i \in 1..Len(cards) : CardIndex(cards[i]) < CardIndex(c)
  /\ evaluation' = evaluateHand(Append(cards, c))
  /\ cards' = cardsAfterEvaluateHand(Append(cards, c))
  /\ UNCHANGED appVars

\* The caller starts over with an empty hand.
EvaluateEmpty ==
  /\ cards # <<>>
  /\ cards' = <<>>
  /\ evaluation' = evaluateHand(cards')
  /\ UNCHANGED appVars

NextEval ==
  \/ \E c \in EvalDeck : EvaluateNext(c)
  \/ EvaluateEmpty

SpecEval == InitEval /\ [][NextEval]_vars


\* ------------------------------------------------------------------------
\* Standard poker ranking, as the reference the evaluator is compared with
\* ------------------------------------------------------------------------

CardSet(cs) == {cs[i] : i \in 1..Len(cs)}

Values(S) == {getRankValue(c.rank) : c \in S}

\* Five distinct values in a row; the Ace also counts low in A-2-3-4-5.
IsRun(vals) ==
  /\ Cardinality(vals) = 5
  /\ \/ Max(vals) - Min(vals) = 4
     \/ vals = {14, 2, 3, 4, 5}

OfRank(S, v) == {c \in S : getRankValue(c.rank) = v}

\* The category (1..10) of exactly five cards.
Category5(S) ==
  LET vals     == Values(S)
      flush    == \A c, d \in S : c.suit = d.suit
      straight == IsRun(vals)
      sizes    == {Cardinality(OfRank(S, v)) : v \in vals}
      pairs    == {v \in vals : Cardinality(OfRank(S, v)) = 2}
  IN  IF straight /\ flush /\ vals = {10, 11, 12, 13, 14} THEN 10
      ELSE IF straight /\ flush THEN 9
      ELSE IF 4 \in sizes THEN 8
      ELSE IF 3 \in sizes /\ 2 \in sizes THEN 7
      ELSE IF flush THEN 6
      ELSE IF straight THEN 5
      ELSE IF 3 \in sizes THEN 4
      ELSE IF Cardinality(pairs) = 2 THEN 3
      ELSE IF Cardinality(pairs) = 1 THEN 2
      ELSE 1

FiveOf(S) == {T \in SUBSET S : Cardinality(T) = 5}

\* The category of the best 5-card hand that the cards hold.
BestCategory(S) == Max({Category5(T) : T \in FiveOf(S)})

\* Five cards of one suit with consecutive ranks (the wheel included).
HoldsStraightFlush(S) == \E T \in FiveOf(S) : Category5(T) \in {9, 10}

\* T-J-Q-K-A of one suit.
HoldsRoyalFlush(S) == \E T \in FiveOf(S) : Category5(T) = 10

\* The values of a set, highest first.
Descending(S) ==
  LET desc[T \in SUBSET S] ==
        IF T = {} THEN <<>> ELSE <<Max(T)>> \o desc[T \ {Max(T)}]
  IN  desc[S]

\* What decides between five-card hands: the category, then the ranks, those
\* held more often first and the higher first; a straight counts by its top
\* card, which is the five in A-2-3-4-5.
RankKey5(T) ==
  LET vals   == Values(T)
      cat    == Category5(T)
      weight == Descending({100 * Cardinality(OfRank(T, v)) + v : v \in vals})
  IN  IF cat \in {5, 9, 10}
      THEN <<cat, IF vals = {14, 2, 3, 4, 5} THEN 5 ELSE Max(vals)>>
      ELSE <<cat>> \o [n \in 1..Len(weight) |-> weight[n] % 100]

\* Lexicographic order on keys of one length.
RankKeyGreater(k, l) ==
  \E n \in 1..Len(k) :
    /\ n <= Len(l)
    /\ k[n] > l[n]
    /\ \A m \in 1..(n - 1) : k[m] = l[m]

\* The key of the best five-card hand the cards hold.
BestRankKey(S) ==
  LET keys == {RankKey5(T) : T \in FiveOf(S)}
  IN  CHOOSE k \in keys : \A l \in keys : ~RankKeyGreater(l, k)

InsufficientCards ==
  [handType |-> "InsufficientCards", handRank |-> 0, kickers |-> <<>>,
   description |-> <<>>, strength |-> 0]

\* ------------------------------------------------------------------------
\* Claims about the evaluator (checked under SpecEval)
\* ------------------------------------------------------------------------

\* C2: for every hand of 5 to 7 distinct cards, evaluateHand returns the
\* category (handRank) of the best 5-card poker hand the cards hold.
C2_BestCategory ==
  Len(cards) \in 5..7 => evaluation.handRank = BestCategory(CardSet(cards))

\* C3: evaluateHand reports Straight Flush or Royal Flush only when five cards
\* of a single suit have consecutive ranks.
C3_StraightFlushNeedsSuitedRun ==
  (Len(cards) \in 5..7 /\ evaluation.handRank \in {9, 10})
    => HoldsStraightFlush(CardSet(cards))

\* C4: Royal Flush (handRank 10, strength 1.0) is reported exactly when the
\* hand holds T-J-Q-K-A of one suit; every other straight flush is reported as
\* Straight Flush (handRank 9, strength 0.95), whatever else the hand holds.
C4_RoyalIffAceHighStraightFlush ==
  Len(cards) \in 5..7 =>
    /\ (evaluation.handRank = 10) <=> HoldsRoyalFlush(CardSet(cards))
    /\ evaluation.handRank = 10 => evaluation.strength = 1000
    /\ (HoldsStraightFlush(CardSet(cards)) /\ ~HoldsRoyalFlush(CardSet(cards)))
         => (evaluation.handRank = 9 /\ evaluation.strength = 950)

\* C5: every 5-card hand with ranks A,2,3,4,5, in any suits (all five of one
\* suit included), is evaluated as Straight, five high, with strength 0.60.
C5_WheelIsStraight ==
  (Len(cards) = 5 /\ Values(CardSet(cards)) = {14, 2, 3, 4, 5})
    => /\ evaluation.handType = "Straight"
       /\ evaluation.kickers = <<"5">>
       /\ evaluation.strength = 600

\* A rank held exactly three times and another rank held at least twice, with
\* no four of a kind and no straight flush in the hand.
IsFullHouseShape(S) ==
  /\ \E v, w \in Values(S) :
       /\ v # w
       /\ Cardinality(OfRank(S, v)) = 3
       /\ Cardinality(OfRank(S, w)) >= 2
  /\ \A v \in Values(S) : Cardinality(OfRank(S, v)) < 4
  /\ ~HoldsStraightFlush(S)

\* C6: every 5-7 card hand with one rank exactly three times and another rank
\* at least twice, no four of a kind and no straight flush, is evaluated as
\* Full House with handRank 7 and strength 0.85.
C6_FullHouse ==
  (Len(cards) \in 5..7 /\ IsFullHouseShape(CardSet(cards)))
    => /\ evaluation.handType = "Full House"
       /\ evaluation.handRank = 7
       /\ evaluation.strength = 850

\* C7 as stated: with fewer than 5 cards the evaluator fails with
\* InsufficientCards and returns no HandEvaluation.
C7_FailsBelowFiveCards ==
  Len(cards) < 5 => evaluation = InsufficientCards

\* C7 as amended: with fewer than 5 cards the evaluator does not fail; it
\* returns the placeholder High Card evaluation (handRank 1, no kickers,
\* description "Incomplete hand", strength 0.1).
C7_PlaceholderBelowFiveCards ==
  Len(cards) < 5 =>
    evaluation = [handType |-> "High Card", handRank |-> 1, kickers |-> <<>>,
                  description |-> <<"Incomplete hand">>, strength |-> 100]

\* A player's two hole cards before the flop have been evaluated.
C7_Witness ==
  /\ Len(cards) = 2
  /\ evaluation.description = <<"Incomplete hand">>


\* ------------------------------------------------------------------------
\* Claims about the betting state machine (checked under SpecEngine)
\* ------------------------------------------------------------------------

ChipsInPlay(e) ==
  LET sum[S \in SUBSET Players] ==
        IF S = {} THEN 0
        ELSE LET i == CHOOSE j \in S : TRUE
             IN  e.players[i].chips + sum[S \ {i}]
  IN  sum[Players] + e.pot

\* C1: within one hand, whatever actions are applied through
\* processPlayerAction (phase transitions and the final pot award included),
\* the sum of all players' chips plus the pot keeps the value it had right
\* after startNewHand.
C1_ChipConservation ==
  [][engine'.handNumber = engine.handNumber
       => ChipsInPlay(engine') = ChipsInPlay(engine)]_vars

\* A showdown has been scored and a player holds more than the starting stack.
C1_Witness ==
  /\ engine.handComplete
  /\ engine.phase = "SHOWDOWN"
  /\ engine.pot = 0
  /\ \E i \in Players : engine.players[i].chips > StartingChips

ToAct(e) == e.players[e.activePlayerIndex]

\* C9: processPlayerAction(CHECK) fails with InvalidAction whenever the
\* table's currentBet is greater than the acting player's currentBet; an
\* accepted CHECK puts no chips in the pot: no player's chips decrease, and
\* unless the CHECK closes the hand (the pot is then awarded) every player's
\* chips and the pot are as before.
C9_CheckLegality ==
  [][lastCall'.action = "CHECK" =>
       /\ (engine.handNumber > 0 /\ ~engine.handComplete
             /\ engine.currentBet > ToAct(engine).currentBet)
            => lastCall'.error = "InvalidAction"
       /\ lastCall'.error = "none" =>
            /\ \A i \in Players : engine'.players[i].chips >= engine.players[i].chips
            /\ ~engine'.handComplete =>
                 /\ engine'.pot = engine.pot
                 /\ \A i \in Players :
                      engine'.players[i].chips = engine.players[i].chips]_vars

\* A CHECK was rejected while a bet was outstanding for the player to act.
C9_Witness ==
  /\ lastCall = [action |-> "CHECK", error |-> "InvalidAction"]
  /\ ~engine.handComplete
  /\ engine.currentBet > ToAct(engine).currentBet

\* The other players who are still active and not all-in.
OthersToMatch(e) ==
  {i \in ActivePlayers(e) \ {e.activePlayerIndex} : e.players[i].chips > 0}

\* C10: within a hand the phase only moves forward, one step at a time, along
\* PREFLOP, FLOP, TURN, RIVER, SHOWDOWN, and a step is taken only when every
\* still-active, non-all-in player has a currentBet equal to the table's and
\* has acted since the last raise: before the closing action every such player
\* other than the one acting had matched and acted, and a RAISE closes no
\* round in which another such player remains.
C10_PhaseSteps ==
  [][(engine'.handNumber = engine.handNumber /\ engine'.phase # engine.phase) =>
       /\ PhaseIndex(engine'.phase) = PhaseIndex(engine.phase) + 1
       /\ lastCall'.error = "none"
       /\ lastCall'.action = "RAISE" => OthersToMatch(engine) = {}
       /\ \A i \in OthersToMatch(engine) :
            /\ engine.players[i].hasActed
            /\ engine.players[i].currentBet = engine.currentBet]_vars

\* In the first hand a raise was made before the flop and the last call of it
\* has just closed the round: the flop is out and nobody has acted on it yet.
C10_Witness ==
  /\ engine.handNumber = 1
  /\ engine.phase = "FLOP"
  /\ Len(engine.communityCards) = 3
  /\ engine.pot > 3 * BigBlind
  /\ lastCall = [action |-> "CALL", error |-> "none"]
  /\ \A i \in Players : ~engine.players[i].hasActed

\* ------------------------------------------------------------------------
\* Claims about the display layer with the engine (checked under Spec)
\* ------------------------------------------------------------------------

Rejections == {"InvalidAction", "InsufficientFunds"}

\* C8: when processPlayerAction rejects an action (InvalidAction or
\* InsufficientFunds) the engine's GameState is unchanged in every field, and
\* the display layer does not replace its gameState.
C8_RejectionChangesNothing ==
  [][lastCall'.error \in Rejections =>
       (engine' = engine /\ gameState' = gameState)]_vars

\* A raise the human submitted during a hand was rejected for lack of chips.
C8_Witness ==
  /\ lastCall = [action |-> "RAISE", error |-> "InsufficientFunds"]
  /\ gameStarted
  /\ ~engine.handComplete
  /\ gameState = getGameState(engine)
  /\ gameState.activePlayerIndex = HumanIndex

\* The number of community cards each phase shows.
CardsOfPhase ==
  [PREFLOP |-> 0, FLOP |-> 3, TURN |-> 4, RIVER |-> 5, SHOWDOWN |-> 5]

\* C11: while the hand is not complete, activePlayerIndex references a player
\* with isActive true, in the engine and in the display's gameState; after
\* each accepted action that leaves the hand open it is the next active player
\* after the one who acted, in table order, wrapping around.
C11_TurnOnActivePlayer ==
  /\ [](~isGameComplete(engine) =>
          /\ engine.players[engine.activePlayerIndex].isActive
          /\ gameState.players[gameState.activePlayerIndex].isActive)
  /\ [][(lastCall'.action \in Actions /\ lastCall'.error = "none"
           /\ ~isGameComplete(engine')) =>
          /\ engine'.activePlayerIndex
               = NextActive(engine', engine.activePlayerIndex)
          /\ gameState'.activePlayerIndex = engine'.activePlayerIndex]_vars

\* The turn has just passed over a folded seat: the seat before the player to
\* act is folded and the seat before that one made the accepted action.
C11_Witness ==
  /\ ~isGameComplete(engine)
  /\ lastCall.action \in {"CHECK", "CALL"}
  /\ lastCall.error = "none"
  /\ ~engine.players[Seat(engine.activePlayerIndex + 2)].isActive
  /\ engine.players[Seat(engine.activePlayerIndex + 1)].hasActed
  /\ gameState.activePlayerIndex = engine.activePlayerIndex

\* C12: the number of community cards is 0 in PREFLOP, 3 in FLOP, 4 in TURN
\* and 5 in RIVER and SHOWDOWN, in the engine and in the display's gameState,
\* and the display shows exactly that many community cards face up.
C12_CommunityCardsOfPhase ==
  /\ Len(engine.communityCards) = CardsOfPhase[engine.phase]
  /\ Len(gameState.communityCards) = CardsOfPhase[gameState.phase]
  /\ Cardinality(FaceUp(gameState)) = CardsOfPhase[gameState.phase]

\* The display shows the five cards of the river.
C12_Witness ==
  /\ gameState.phase = "RIVER"
  /\ FaceUp(gameState) = 0..4
  /\ ~isGameComplete(engine)

\* ------------------------------------------------------------------------
\* More claims about the betting state machine (checked under SpecEngine)
\* ------------------------------------------------------------------------

\* C13: when an accepted FOLD leaves exactly one active player, the hand ends
\* within that call: the whole pot goes to the remaining player whatever the
\* hands are, the others' chips stay, no community card is dealt and the phase
\* stays; and once the hand is complete isGameComplete() stays true until the
\* next startNewHand.
C13_FoldWin ==
  [][/\ (/\ lastCall' = [action |-> "FOLD", error |-> "none"]
         /\ Cardinality(ActivePlayers(engine')) = 1) =>
          /\ isGameComplete(engine')
          /\ engine'.pot = 0
          /\ \A i \in Players :
               engine'.players[i].chips =
                 engine.players[i].chips
                   + (IF i \in ActivePlayers(engine') THEN engine.pot ELSE 0)
          /\ engine'.communityCards = engine.communityCards
          /\ engine'.phase = engine.phase
     /\ (isGameComplete(engine) /\ engine'.handNumber = engine.handNumber)
          => isGameComplete(engine')]_vars

\* The last opponent folded on the flop and the player left took the pot.
C13_Witness ==
  /\ lastCall = [action |-> "FOLD", error |-> "none"]
  /\ isGameComplete(engine)
  /\ engine.phase = "FLOP"
  /\ Len(engine.communityCards) = 3
  /\ \E i \in Players :
       /\ ActivePlayers(engine) = {i}
       /\ engine.players[i].chips > StartingChips

\* C14: within one hand a player's isActive changes only from true to false,
\* only by an accepted FOLD of that player as the player to act; it never
\* returns to true before the next startNewHand.
C14_FoldIsFinal ==
  [][engine'.handNumber = engine.handNumber =>
       \A i \in Players :
         engine'.players[i].isActive # engine.players[i].isActive =>
           /\ engine.players[i].isActive
           /\ ~engine'.players[i].isActive
           /\ lastCall' = [action |-> "FOLD", error |-> "none"]
           /\ i = engine.activePlayerIndex]_vars

\* A player folded before the flop and the hand went on to the turn without
\* that player.
C14_Witness ==
  /\ engine.phase = "TURN"
  /\ ~isGameComplete(engine)
  /\ Cardinality(ActivePlayers(engine)) = 2
  /\ lastCall.error = "none"
  /\ lastCall.action \in {"CHECK", "CALL", "RAISE"}

\* The active players whose best five-card hand no other active player's beats:
\* among themselves their best hands have the same category and kickers.
BestHands(e) ==
  LET key == [i \in ActivePlayers(e) |->
                BestRankKey(CardSet(e.players[i].cards \o e.communityCards))]
  IN  {i \in ActivePlayers(e) :
         \A j \in ActivePlayers(e) : ~RankKeyGreater(key[j], key[i])}

\* C15: at the showdown the players whose best hands have the same, unbeaten,
\* category and kickers split the pot evenly: each of them gets the integer
\* share, exactly one of them gets the remainder of the division on top when
\* there is one, the others get nothing, and no chip is lost or created.
\* (paid is the state once the action of the step has been paid for, gain what
\* each seat holds after the step beyond that.)
C15_ShowdownSplit ==
  [][(/\ engine'.handNumber = engine.handNumber
      /\ engine.phase # "SHOWDOWN"
      /\ engine'.phase = "SHOWDOWN") =>
       \E amt \in AmountChoices :
         \E paid \in {ApplyAction(engine, lastCall'.action, amt)},
            tied \in {BestHands(engine')} :
           \E gain \in {[i \in Players |->
                           engine'.players[i].chips - paid.players[i].chips]},
              share \in {paid.pot \div Cardinality(tied)},
              rest \in {paid.pot % Cardinality(tied)} :
             /\ engine'.pot = 0
             /\ \A i \in Players \ tied : gain[i] = 0
             /\ \A i \in tied : gain[i] \in {share, share + rest}
             /\ Cardinality({i \in tied : gain[i] = share + rest})
                  = (IF rest = 0 THEN Cardinality(tied) ELSE 1)
             /\ ChipsInPlay(engine') = ChipsInPlay(engine)]_vars

\* ------------------------------------------------------------------------
\* More claims about the display layer with the engine (checked under Spec)
\* ------------------------------------------------------------------------

\* The invocation in slot k takes a bot's decision in this step.
Decides(k) == loops[k].pc # "thinking" /\ loops'[k].pc = "thinking"

\* The invocation in slot k commits its decision in this step.
Commits(k) == loops[k].pc = "thinking" /\ loops'[k].pc # "thinking"

\* C16: the action getBotDecision returns on a bot's turn is a member of
\* getAvailableActions() for that state, and the processPlayerAction call the
\* display layer then makes with decision.action and decision.amount is never
\* rejected.
C16_BotActionAccepted ==
  [][\A k \in Slots :
       /\ Decides(k) => loops'[k].action \in getAvailableActions(engine)
       /\ Commits(k) => lastCall'.error = "none"]_vars

\* C17: actions reach the engine strictly sequentially: at most one
\* processBotTurn loop is in flight, and between a getBotDecision and the
\* processPlayerAction that commits it the engine takes no other action and no
\* startNewHand, so the decision is committed for the bot it was computed for.
C17_SequentialBotTurns ==
  /\ [](Cardinality(LiveLoops) <= 1)
  /\ [][\A k \in Slots :
          loops[k].pc = "thinking" =>
            /\ engine.activePlayerIndex = loops[k].active
            /\ engine' # engine => Commits(k)]_vars

\* C18: whenever an engine call made by the display layer fails
\* (processPlayerAction for a human or a bot action, getBotDecision in a bot
\* turn) the display does not stay locked: isProcessing is false afterwards,
\* or a processBotTurn callback is still pending or running that will set it
\* to false.
C18_FailureUnlocks ==
  [][lastCall'.error # "none" =>
       (~isProcessing' \/ timers' > 0 \/ LiveLoops' # {})]_vars

\* ------------------------------------------------------------------------
\* More claims about the evaluator (checked under SpecEval)
\* ------------------------------------------------------------------------

\* Hands the evaluated hand is compared with: a pair of twos with A-K-Q, threes
\* and twos with an ace, and ace-high without a pair.
Rivals ==
  { <<Card("2", "h"), Card("2", "s"), Card("A", "h"), Card("K", "h"), Card("Q", "h")>>,
    <<Card("3", "h"), Card("3", "s"), Card("2", "h"), Card("2", "s"), Card("A", "h")>>,
    <<Card("A", "s"), Card("K", "h"), Card("Q", "h"), Card("J", "h"), Card("9", "d")>> }

\* The kickers list of an evaluation, as rank values.
KickerValues(ev) == RankValues(ev.kickers)

\* C20: for two 5-7 card hands that evaluateHand places in the same category,
\* comparing their kickers lists in order (first difference decides) selects
\* the hand whose best five cards win under standard poker ranking, and the
\* lists are equal only when the two best five-card hands tie.
C20_KickersDecide ==
  Len(cards) \in 5..7 =>
    \A rival \in Rivals :
      \E other \in {evaluateHand(rival)},
         mine \in {BestRankKey(CardSet(cards))},
         theirs \in {BestRankKey(CardSet(rival))} :
        other.handRank = evaluation.handRank =>
          /\ KeyGreater(KickerValues(evaluation), KickerValues(other))
               => RankKeyGreater(mine, theirs)
          /\ KeyGreater(KickerValues(other), KickerValues(evaluation))
               => RankKeyGreater(theirs, mine)
          /\ KickerValues(evaluation) = KickerValues(other) => mine = theirs

\* ------------------------------------------------------------------------
\* Claims about the action buttons (checked under Spec)
\* ------------------------------------------------------------------------

\* C21: whenever RAISE is offered to the human player, the amount that
\* ActionButtons submits with it satisfies the engine's raise requirement,
\* max(currentBet*2, currentBet+50) <= amount <= playerChips, for every value
\* of the slider and every quick bet.
C21_SubmittedRaiseIsLegal ==
  "RAISE" \in availableActions =>
    \A raiseAmount \in raiseAmounts(gameState.currentBet, playerChips) :
      \E amount \in {handleRaise(raiseAmount, gameState.currentBet, playerChips)} :
        /\ minRaise(gameState.currentBet) <= amount
        /\ amount <= playerChips

\* ------------------------------------------------------------------------
\* Claims about the evaluator's categories (checked under SpecEval)
\* ------------------------------------------------------------------------

\* The array evaluateHand hands to its check functions.
sortedCards ==
  SortDescending(cards, [i \in 1..Len(cards) |-> getRankValue(cards[i].rank)])

\* The top values of the straights a set of rank values holds; the Ace counts
\* as 1 below the 2 only.
StraightTops(vals) ==
  {top \in 5..14 :
     \A j \in 0..4 : (IF top - j = 1 THEN 14 ELSE top - j) \in vals}

RankOf(v) == CHOOSE r \in {Rank[i] : i \in 1..Len(Rank)} : getRankValue(r) = v

\* C22: for every 5-7 card hand checkStraight reports a straight exactly when
\* the hand holds five consecutive distinct ranks, the Ace counting low in
\* A-2-3-4-5 only; it reports the highest straight present, and the wheel
\* (kicker Five, strength 0.60) only when the hand holds no higher straight.
C22_HighestStraight ==
  Len(cards) \in 5..7 =>
    \E result \in {checkStraight(sortedCards)},
       tops \in {StraightTops(Values(CardSet(cards)))} :
      /\ (result = Null) <=> (tops = {})
      /\ tops # {} =>
           /\ result.handRank = 5
           /\ result.kickers = <<RankOf(Max(tops))>>
           /\ result.strength = (IF Max(tops) = 5 THEN 600 ELSE 650)

\* A hand that holds the wheel and the six-high straight was evaluated as a
\* straight, six high.
C22_Witness ==
  /\ {14, 2, 3, 4, 5, 6} \subseteq Values(CardSet(cards))
  /\ evaluation.handType = "Straight"
  /\ evaluation.kickers = <<"6">>
  /\ evaluation.strength = 650

\* The rank values a set of cards holds exactly n times.
HeldTimes(S, n) == {v \in Values(S) : Cardinality(OfRank(S, v)) = n}

\* C23: when a 7-card hand holds a three of a kind and two different pairs,
\* the Full House that evaluateHand reports uses the higher of the two pairs,
\* in its kickers [trips rank, pair rank] and in its description.
C23_FullHouseHigherPair ==
  (/\ Len(cards) = 7
   /\ Cardinality(HeldTimes(CardSet(cards), 3)) = 1
   /\ Cardinality(HeldTimes(CardSet(cards), 2)) = 2) =>
    \E trips \in {RankOf(Max(HeldTimes(CardSet(cards), 3)))},
       pair \in {RankOf(Max(HeldTimes(CardSet(cards), 2)))} :
      /\ evaluation.handType = "Full House"
      /\ evaluation.kickers = <<trips, pair>>
      /\ evaluation.description = <<"Full House", trips, "over", pair>>

\* C24: for every hand evaluated as Two Pair the two pairs used are the two
\* highest-ranked pairs, and the single kicker is the highest-ranked card
\* outside those two pairs (in a 7-card hand it may belong to a third pair).
C24_TwoPairKicker ==
  (Len(cards) \in 5..7 /\ evaluation.handType = "Two Pair") =>
    \E pairs \in {HeldTimes(CardSet(cards), 2)} :
      \E high \in {Max(pairs)} :
        \E low \in {Max(pairs \ {high})} :
          /\ evaluation.description
               = <<"Two Pair", RankOf(high), "and", RankOf(low)>>
          /\ evaluation.kickers
               = <<RankOf(Max(Values(CardSet(cards)) \ {high, low}))>>

\* The strength (in thousandths) that goes with a category whose strength
\* does not depend on the ranks held.
CategoryStrength ==
  [t \in {"Royal Flush", "Straight Flush", "Four of a Kind", "Full House",
          "Flush", "Three of a Kind"} |->
     CASE t = "Royal Flush"     -> 1000
       [] t = "Straight Flush"  -> 950
       [] t = "Four of a Kind"  -> 900
       [] t = "Full House"      -> 850
       [] t = "Flush"           -> 750
       [] t = "Three of a Kind" -> 550]

\* C25: the strength of every evaluation of 5 or more cards is fixed by its
\* category: Royal Flush 1.0, Straight Flush 0.95, Four of a Kind 0.9, Full
\* House 0.85, Flush 0.75, Straight 0.65 (0.60 when the wheel is the only
\* straight held), Three of a Kind 0.55, Pair 0.3 + pairRank/100, and High
\* Card 0.1 + topRank/200 with the five highest ranks as kickers (ranks run
\* 2..14, Ace = 14).
C25_StrengthByCategory ==
  Len(cards) >= 5 =>
    \E vals \in {Values(CardSet(cards))}, t \in {evaluation.handType} :
      /\ t \in DOMAIN CategoryStrength \cup {"Straight", "Two Pair", "Pair", "High Card"}
      /\ t \in DOMAIN CategoryStrength => evaluation.strength = CategoryStrength[t]
      /\ t = "Straight" =>
            evaluation.strength = (IF Max(StraightTops(vals)) = 5 THEN 600 ELSE 650)
      /\ t = "Pair" =>
            /\ Cardinality(HeldTimes(CardSet(cards), 2)) = 1
            /\ \A pairRank \in HeldTimes(CardSet(cards), 2) :
                  evaluation.strength = 300 + 10 * pairRank
      /\ t = "High Card" =>
            /\ evaluation.strength = 100 + 5 * Max(vals)
            /\ KickerValues(evaluation) = SubSeq(Descending(vals), 1, 5)

\* Seven cards without a pair, straight or flush: the
\* kickers are A-K-J-6-5 out of A-K-J-6-5-3-2.
C25_Witness ==
  /\ Len(cards) = 7
  /\ evaluation.handType = "High Card"
  /\ evaluation.strength = 170
  /\ KickerValues(evaluation) = <<14, 13, 11, 6, 5>>

\* The least strength (in thousandths) a result of each handRank can have;
\* above the last category comes a value no strength reaches.
StrengthFloor ==
  <<100, 320, 450, 550, 600, 750, 850, 900, 950, 1000, 1001>>

\* C26: strength is strictly monotone in category: of any two results of
\* evaluateHand, on any inputs, the one with the higher handRank has the
\* strictly greater strength (the Two Pair value 0.45 and the rank-scaled
\* Pair and High Card values included), and every strength lies in [0, 1].
\* Every result's strength lies between the floor of its own handRank and the
\* floor of the next one, and the floors increase strictly, so that the
\* result of a higher handRank is the stronger of any two.
C26_StrengthMonotone ==
  /\ evaluation.strength \in 0..1000
  /\ evaluation.handRank \in 1..10
  /\ StrengthFloor[evaluation.handRank] <= evaluation.strength
  /\ evaluation.strength < StrengthFloor[evaluation.handRank + 1]
  /\ \A r \in 1..10 : StrengthFloor[r] < StrengthFloor[r + 1]

\* A pair of aces with six cards: the strongest hand of its category, just
\* below the Two Pair value.
C26_Witness ==
  /\ Len(cards) = 6
  /\ evaluation.handRank = 2
  /\ evaluation.strength = 440
  /\ evaluation.strength < StrengthFloor[3]

\* The array with the cards at two positions exchanged.
Swapped(s, i, j) ==
  [k \in 1..Len(s) |-> IF k = i THEN s[j] ELSE IF k = j THEN s[i] ELSE s[k]]

\* The array back to front.
Reversed(s) == [k \in 1..Len(s) |-> s[Len(s) + 1 - k]]

\* Other orders of the same cards: any two exchanged, and all reversed.
Rearranged(s) ==
  {Reversed(s)}
    \cup {Swapped(s, p[1], p[2]) : p \in {q \in (1..Len(s)) \X (1..Len(s)) : q[1] < q[2]}}

\* C27: evaluateHand's result depends only on the set of cards, not on their
\* order: for the same 5-7 cards in another order it returns the same
\* handType, handRank, kickers and strength, and it leaves the caller's card
\* array unchanged.
C27_OrderIndependent ==
  /\ [](Len(cards) \in 5..7 =>
         \A other \in Rearranged(cards) :
           \E result \in {evaluateHand(other)} :
             /\ result.handType = evaluation.handType
             /\ result.handRank = evaluation.handRank
             /\ result.kickers = evaluation.kickers
             /\ result.strength = evaluation.strength)
  /\ [][cards' = <<>> \/ \E c \in EvalDeck : cards' = Append(cards, c)]_vars

\* A heart flush among seven cards given lowest first, from the two of hearts
\* up to the ace of diamonds: the reversed array starts with that ace.
C27_Witness ==
  /\ Len(cards) = 7
  /\ cards[1] = Card("2", "h")
  /\ Reversed(cards)[1] = Card("A", "d")
  /\ evaluation.handType = "Flush"
  /\ evaluateHand(Reversed(cards)).kickers = evaluation.kickers

\* ------------------------------------------------------------------------
\* Claims about the display's gating and rendering (checked under Spec)
\* ------------------------------------------------------------------------

\* This step is a handlePlayerAction call that reaches processPlayerAction.
HumanActs == \E in \in ActionInputs : HandlePlayerAction(in[1], in[2])

\* A processBotTurn invocation is suspended at one of its awaits: a decision
\* is shown and yet to be committed, or the next bot's turn is about to start.
BotTurnInProgress == LiveLoops # {}

\* C28: the display layer offers the action buttons, and forwards a human
\* action to processPlayerAction, only in states where isProcessing is false,
\* the hand is not complete and the active player is the human player; no
\* human action reaches the engine while a bot turn is in progress.
C28_HumanActsOnOwnTurn ==
  /\ [](availableActions # {} =>
         /\ ~isProcessing
         /\ ~isGameComplete(engine)
         /\ engine.activePlayerIndex = HumanIndex)
  /\ [][HumanActs =>
          /\ ~isProcessing
          /\ ~isGameComplete(engine)
          /\ engine.activePlayerIndex = HumanIndex
          /\ ~BotTurnInProgress]_vars

\* A processBotTurn callback is scheduled or running.
LoopPending == timers > 0 \/ LiveLoops # {}

\* No processBotTurn is scheduled or running, the display is unlocked, and the
\* player to act is the human or the hand is complete.
BotLoopDone ==
  /\ timers = 0
  /\ LiveLoops = {}
  /\ ~isProcessing
  /\ isGameComplete(engine) \/ engine.activePlayerIndex = HumanIndex

\* The engine has just rejected a processPlayerAction call.
ActionRejected == lastCall.action \in Actions /\ lastCall.error # "none"

\* C29: after an accepted human action or a new hand whose first player is a
\* bot (a processBotTurn is then scheduled), with the timers firing and every
\* bot action accepted, the bot-turn loop eventually finishes: it has stopped
\* with the human as active player or the hand complete, and isProcessing is
\* false.
C29_BotLoopFinishes == LoopPending ~> (BotLoopDone \/ ActionRejected)

=============================================================================
